---------------------------- MODULE Spec2Model ----------------------------
(***************************************************************************)
(* A model of examples/alarm_clock.py of the Cozmo Python SDK: the         *)
(* command-line time parser (extract_time_from_args), the clock renderer   *)
(* (make_clock_image), the scoped "off the charger" helper                 *)
(* (perform_operation_off_charger / backup_onto_charger) and the polling   *)
(* loop of alarm_clock.                                                    *)
(*                                                                         *)
(* Strings are sequences of one-character strings (<<"7", ":", "3">> is    *)
(* "7:3"), so that splitting, formatting and int() are computed character  *)
(* by character.  The wall clock is a count of whole seconds since         *)
(* midnight of day 0; datetime.time values are records of hour, minute and *)
(* second.  The microsecond field is left out: the alarm time always has   *)
(* microsecond 0, so (h, m, s, us) < (ah, am, as, 0) is decided by the     *)
(* first three fields, and the loop only ever reads .hour, .minute and     *)
(* .second of a sampled time.                                              *)
(***************************************************************************)
EXTENDS Integers, Sequences, FiniteSets, TLC

VARIABLES
    given,                 \* the fields and separators the user typed
    argv,                  \* sys.argv[1:], a sequence of strings
    parsed,                \* outcome of extract_time_from_args, or NotRun
    alarm_time,            \* alarm_clock's alarm_time (None or a time)
    pc,                    \* position of the single thread
    ctx,                   \* who entered perform_operation_off_charger
    wall,                  \* the wall clock, whole seconds since day 0 00:00:00
    stop_at,               \* the second at which the user interrupts the loop
    current_time,          \* the last sample of datetime.now().time()
    sample_day,            \* the calendar day of that sample
    do_alarm,              \* do_alarm of the last tick
    was_before_alarm_time, \* loop state
    last_displayed_time,   \* loop state
    show_analog,           \* SHOW_ANALOG_CLOCK
    face,                  \* the last image pushed to the LCD, or None
    is_on_charger,         \* robot.is_on_charger
    lift_height,           \* robot.lift_height.distance_mm
    head_angle,            \* robot.head_angle.degrees
    wheels,                \* "stopped" or "reverse"
    was_on_charger,        \* local of perform_operation_off_charger
    time_waited,           \* local of backup_onto_charger, in tenths of a second
    cmds,                  \* robot commands issued since the last tick began
    spoken,                \* the text of the last say_text, or None
    day_fires,             \* ticks of the current calendar day that fired
    first_day,             \* the calendar day of the first tick, -1 before it
    last_fire_day,         \* the calendar day of the last tick that fired, or -1
    ended_day_fires        \* fires of the last calendar day ticked from its
                           \* start to its end, -1 when there is none yet

vars == << given, argv, parsed, alarm_time, pc, ctx, wall, stop_at,
           current_time, sample_day, do_alarm, was_before_alarm_time,
           last_displayed_time, show_analog, face, is_on_charger, lift_height,
           head_angle, wheels, was_on_charger, time_waited, cmds, spoken,
           day_fires, first_day, last_fire_day, ended_day_fires >>

\* the variables of the robot and of the scoped charger helper
robot_vars == << is_on_charger, lift_height, head_angle, wheels,
                 was_on_charger, time_waited, spoken >>

\* the variables of the polling loop
loop_vars == << current_time, sample_day, do_alarm, was_before_alarm_time,
                last_displayed_time, face >>

\* the bookkeeping of firing ticks per calendar day
count_vars == << day_fires, first_day, last_fire_day, ended_day_fires >>

\* what is fixed when the process starts
start_vars == << given, argv, stop_at, show_analog >>

(***************************************************************************)
(* Values                                                                  *)
(***************************************************************************)
\* Python's None
None == [none |-> TRUE]

\* extract_time_from_args has not been called yet
NotRun == [notrun |-> TRUE]

\* if x: for x a datetime.time or None.  From Python 3.5 on (the SDK needs
\* 3.5.1) every datetime.time is true, midnight included.
Truthy(x) == x # None

(***************************************************************************)
(* Strings                                                                 *)
(***************************************************************************)
Digits == <<"0", "1", "2", "3", "4", "5", "6", "7", "8", "9">>

IsDigit(c) == \E i \in 1..10 : Digits[i] = c

DigitValue(c) == (CHOOSE i \in 1..10 : Digits[i] = c) - 1

\* str(n) for an integer n
RECURSIVE StrNat(_)
StrNat(n) == IF n < 10 THEN << Digits[n + 1] >>
             ELSE StrNat(n \div 10) \o << Digits[(n % 10) + 1] >>

Str(n) == IF n < 0 THEN <<"-">> \o StrNat(-n) ELSE StrNat(n)

\* str.split(sep) for a one-character sep: the fields between the
\* separators, empty fields kept ("" gives [""], "7:" gives ["7", ""])
RECURSIVE SplitFrom(_, _, _, _)
SplitFrom(s, sep, i, field) ==
    IF i > Len(s) THEN << field >>
    ELSE IF s[i] = sep THEN << field >> \o SplitFrom(s, sep, i + 1, << >>)
    ELSE SplitFrom(s, sep, i + 1, Append(field, s[i]))

Split(s, sep) == SplitFrom(s, sep, 1, << >>)

\* str.strip() restricted to the blank character
RECURSIVE Strip(_)
Strip(s) ==
    IF Len(s) = 0 THEN s
    ELSE IF s[1] = " " THEN Strip(Tail(s))
    ELSE IF s[Len(s)] = " " THEN Strip(SubSeq(s, 1, Len(s) - 1))
    ELSE s

\* the digits part of an int literal: digits, with single underscores
\* allowed between two digits
DigitsOk(s) ==
    /\ Len(s) > 0
    /\ \A i \in 1..Len(s) :
          \/ IsDigit(s[i])
          \/ /\ s[i] = "_"
             /\ i > 1 /\ i < Len(s)
             /\ IsDigit(s[i - 1]) /\ IsDigit(s[i + 1])

RECURSIVE DigitsValue(_, _)
DigitsValue(s, acc) ==
    IF Len(s) = 0 THEN acc
    ELSE IF s[1] = "_" THEN DigitsValue(Tail(s), acc)
    ELSE DigitsValue(Tail(s), 10 * acc + DigitValue(s[1]))

\* int(s) for a str s: surrounding blanks are stripped, one sign is
\* allowed, then the digits.  exc is "ValueError" when s is no int literal.
PyInt(s) ==
    LET t == Strip(s)
        signed == Len(t) > 0 /\ t[1] \in {"+", "-"}
        body == IF signed THEN Tail(t) ELSE t
    IN  IF ~DigitsOk(body) THEN [exc |-> "ValueError", val |-> 0]
        ELSE [exc |-> "none",
              val |-> IF signed /\ t[1] = "-" THEN 0 - DigitsValue(body, 0)
                      ELSE DigitsValue(body, 0)]


(***************************************************************************)
(* The time-argument parser                                                *)
(***************************************************************************)
MaxHours == 23

MaxMinutes == 59

MaxSeconds == 59

\* max_for_time_unit[time_unit]
MaxForTimeUnit(time_unit) ==
    CASE time_unit = "hours" -> MaxHours
      [] time_unit = "minutes" -> MaxMinutes
      [] time_unit = "seconds" -> MaxSeconds

\* raise ValueError(...)
RaiseValueError == [exc |-> "ValueError", val |-> 0]

\* return v
Return(v) == [exc |-> "none", val |-> v]

\* convert_to_time_int with the upper test written >= instead of >
ConvertToTimeIntStrict(in_value, time_unit) ==
    LET max_val == MaxForTimeUnit(time_unit)
        int_val == PyInt(in_value)
    IN  IF int_val.exc = "ValueError" THEN RaiseValueError
        ELSE IF int_val.val < 0 THEN RaiseValueError
        ELSE IF int_val.val >= max_val THEN RaiseValueError
        ELSE Return(int_val.val)

\* convert_to_time_int: the int of in_value, or ValueError when it is no
\* int, negative, or above the maximum of its unit
ConvertToTimeInt(in_value, time_unit) ==
    LET max_val == MaxForTimeUnit(time_unit)
        int_val == PyInt(in_value)
    IN  IF int_val.exc = "ValueError" THEN RaiseValueError
        ELSE IF int_val.val < 0 THEN RaiseValueError
        ELSE IF int_val.val > max_val THEN RaiseValueError
        ELSE Return(int_val.val)

\* datetime.time(hours, minutes, seconds), which checks its own ranges
DatetimeTime(hours, minutes, seconds) ==
    IF hours \in 0..23 /\ minutes \in 0..59 /\ seconds \in 0..59
    THEN Return([hour |-> hours, minute |-> minutes, second |-> seconds])
    ELSE RaiseValueError

\* the loop over sys.argv[1:]: every argument split on ":", the pieces
\* appended in order
RECURSIVE SplitTimeArgs(_)
SplitTimeArgs(args) ==
    IF Len(args) = 0 THEN << >>
    ELSE Split(Head(args), ":") \o SplitTimeArgs(Tail(args))

\* the except clause printing the error and raising it again
HandleParseErrorReraise(exc) == [exc |-> exc, val |-> None]

\* the except clause of extract_time_from_args: a ValueError is printed and
\* the function falls through to "return None"; anything else propagates
HandleParseError(exc) ==
    IF exc = "ValueError" THEN Return(None) ELSE [exc |-> exc, val |-> None]

\* extract_time_from_args, on args = sys.argv[1:].  The result is
\* [exc, val]: exc is "none" when the function returns val, and otherwise
\* the exception that leaves it.
ExtractTimeFromArgs(args) ==
    LET split_time_args == SplitTimeArgs(args)
        hours == ConvertToTimeInt(split_time_args[1], "hours")
        minutes == ConvertToTimeInt(split_time_args[2], "minutes")
        seconds == IF Len(split_time_args) >= 3
                   THEN ConvertToTimeInt(split_time_args[3], "seconds")
                   ELSE Return(0)
        made == DatetimeTime(hours.val, minutes.val, seconds.val)
    IN  IF Len(split_time_args) >= 2
        THEN IF hours.exc # "none" THEN HandleParseError(hours.exc)
             ELSE IF minutes.exc # "none" THEN HandleParseError(minutes.exc)
             ELSE IF seconds.exc # "none" THEN HandleParseError(seconds.exc)
             ELSE IF made.exc # "none" THEN HandleParseError(made.exc)
             ELSE Return(made.val)
        ELSE Return(None)

(***************************************************************************)
(* Time of day                                                             *)
(***************************************************************************)
SecondsPerDay == 24 * 60 * 60

\* the calendar day of a wall-clock second
DayOf(w) == w \div SecondsPerDay

\* datetime.datetime.now().time() when the wall clock reads w
TimeOfDay(w) ==
    LET s == w % SecondsPerDay
    IN  [hour |-> s \div 3600, minute |-> (s \div 60) % 60, second |-> s % 60]

\* a < b for two datetime.time values
TimeLess(a, b) ==
    \/ a.hour < b.hour
    \/ a.hour = b.hour /\ a.minute < b.minute
    \/ a.hour = b.hour /\ a.minute = b.minute /\ a.second < b.second

(***************************************************************************)
(* The clock renderer                                                      *)
(***************************************************************************)
\* a two-digit, zero-padded field of strftime
Pad2(n) == << Digits[(n \div 10) + 1], Digits[(n % 10) + 1] >>

\* time.strftime("%I:%M:%S %p", t): the 12-hour clock with AM/PM
Strftime12(t) ==
    LET hour12 == IF t.hour % 12 = 0 THEN 12 ELSE t.hour % 12
    IN  Pad2(hour12) \o <<":">> \o Pad2(t.minute) \o <<":">> \o Pad2(t.second)
            \o <<" ">> \o (IF t.hour < 12 THEN <<"A", "M">> ELSE <<"P", "M">>)

\* make_text_image: the text on an otherwise black image
MakeTextImage(text_to_draw) ==
    [mode |-> "digital", text |-> text_to_draw, hands |-> None]

\* the three circle_ratio values make_clock_image hands to draw_clock_hand,
\* as exact fractions: sec_ratio = sec60 / 60, min_ratio = min3600 / 3600,
\* hour_ratio = hour43200 / 43200
HandRatios(time_arg) ==
    [sec60 |-> time_arg.second,
     min3600 |-> (60 * time_arg.minute) + time_arg.second,
     hour43200 |-> (3600 * time_arg.hour) + (60 * time_arg.minute)
                       + time_arg.second]

\* the text make_clock_image draws: time.strftime is called without a time
\* argument, so it formats the local time at the moment of the call (now),
\* whatever time was passed in as current_time (time_arg)
ClockText(time_arg, now) == Strftime12(now)

\* make_clock_image(current_time = time_arg), called when the local time is now
MakeClockImage(time_arg, now, analog) ==
    LET time_text == ClockText(time_arg, now)
    IN  IF ~analog THEN MakeTextImage(time_text)
        ELSE [mode |-> "analog", text |-> time_text,
              hands |-> HandRatios(time_arg)]


(***************************************************************************)
(* The robot helpers                                                       *)
(***************************************************************************)
\* robot.lift_height.distance_mm above which get_in_position moves the lift
LiftLimit == 45

\* robot.head_angle.degrees below which get_in_position moves the head
HeadLimit == 40

\* cozmo.robot.MAX_HEAD_ANGLE in whole degrees (44.5 in the SDK)
MaxHeadAngle == 44

\* the 3.0 seconds of backup_onto_charger, in tenths of a second.  The
\* code adds the double 0.1 to time_waited: the first 29 sums are below 3.0
\* and the 30th is 3.0000000000000013, so counting tenths gives the same
\* number of iterations as the doubles do.
MaxWaitTenths == 30

\* sleep_time_s, in tenths of a second
SleepTenths == 1

\* the most whole seconds one blocking robot action is given to take
MaxBlock == 2

\* one iteration of the loop that does not fire lasts a fraction of a
\* second (a render and time.sleep(0.1)), so from one tick to the next the
\* wall clock moves into the next second at most
TickSeconds == 1

\* the condition of get_in_position
NeedsPositioning(lift_mm, head_deg) ==
    (lift_mm > LiftLimit) \/ (head_deg < HeadLimit)

\* the while condition with <= in place of <
KeepWaitingOneMore(waited, on_charger) ==
    waited <= MaxWaitTenths /\ ~on_charger

\* the condition of the while loop of backup_onto_charger
KeepWaiting(waited, on_charger) == waited < MaxWaitTenths /\ ~on_charger

\* the backup done whether or not the robot was on the charger
BackupAlways(was) == TRUE

\* if was_on_charger: of perform_operation_off_charger
BackupNeeded(was) == was

\* the number of times command c stands in log
Count(log, c) == Cardinality({i \in 1..Len(log) : log[i] = c})

\* where control goes when perform_operation_off_charger is left
AfterBlock(who) == IF who = "position" THEN "loop" ELSE "sleep"

(***************************************************************************)
(* alarm_clock: the edge detect and the redraw test                        *)
(***************************************************************************)
\* the alarm test without the edge: not is_before_alarm_time
DoAlarmLevel(was_before, is_before) == ~is_before

\* was_before_alarm_time and not is_before_alarm_time
DoAlarm(was_before, is_before) == was_before /\ ~is_before

\* do_alarm starting out True instead of False
AlarmDueDefaultTrue(alarm, was_before, sampled) ==
    IF Truthy(alarm) THEN DoAlarm(was_before, TimeLess(sampled, alarm))
    ELSE TRUE

\* do_alarm of one tick, lines 283-286: False unless an alarm time is set
AlarmDue(alarm, was_before, sampled) ==
    IF Truthy(alarm) THEN DoAlarm(was_before, TimeLess(sampled, alarm))
    ELSE FALSE

\* was_before_alarm_time after one tick, lines 284-287
NextWasBefore(alarm, was_before, sampled) ==
    IF Truthy(alarm) THEN TimeLess(sampled, alarm) ELSE was_before

\* was_before_alarm_time starting out True
InitialWasBeforeTrue == TRUE

\* was_before_alarm_time = False, before the loop
InitialWasBefore == FALSE

\* a redraw on every tick
NeedsRedrawAlways(last_displayed, sampled) == TRUE

\* (last_displayed_time is None) or
\* (current_time.second != last_displayed_time.second)
NeedsRedraw(last_displayed, sampled) ==
    (last_displayed = None) \/ (sampled.second # last_displayed.second)

\* str(current_time.hour) + ":" + str(current_time.minute)
ShortTimeString(sampled) == Str(sampled.hour) \o <<":">> \o Str(sampled.minute)

(***************************************************************************)
(* Actions                                                                 *)
(***************************************************************************)
\* alarm_time = extract_time_from_args(), lines 267-271.  An exception that
\* leaves the parser ends alarm_clock.
ExtractArgs ==
    /\ pc = "args"
    /\ parsed' = ExtractTimeFromArgs(argv)
    /\ alarm_time' = parsed'.val
    /\ pc' = IF parsed'.exc = "none" THEN "position" ELSE "crashed"
    /\ UNCHANGED << start_vars, ctx, wall, loop_vars, robot_vars, cmds,
                    count_vars >>

\* get_in_position, up to the with statement
GetInPosition ==
    /\ pc = "position"
    /\ IF NeedsPositioning(lift_height, head_angle)
       THEN pc' = "enter" /\ ctx' = "position"
       ELSE pc' = "loop" /\ ctx' = ctx
    /\ UNCHANGED << start_vars, parsed, alarm_time, wall, loop_vars,
                    robot_vars, cmds, count_vars >>

\* perform_operation_off_charger up to its yield: remember is_on_charger,
\* drive off the contacts and wait for that to complete
EnterOffCharger ==
    /\ pc = "enter"
    /\ was_on_charger' = is_on_charger
    /\ cmds' = Append(cmds, "drive_off_charger_contacts")
    /\ is_on_charger' = FALSE
    /\ \E d \in 0..MaxBlock : wall' = wall + d
    /\ pc' = IF ctx = "position" THEN "move" ELSE "say"
    /\ UNCHANGED << start_vars, parsed, alarm_time, ctx, loop_vars,
                    lift_height, head_angle, wheels, time_waited, spoken,
                    count_vars >>

\* the with block of get_in_position
MoveLiftAndHead ==
    /\ pc = "move"
    /\ lift_height' = 0
    /\ head_angle' = MaxHeadAngle
    /\ cmds' = cmds \o <<"set_lift_height", "set_head_angle">>
    /\ \E d \in 0..MaxBlock : wall' = wall + d
    /\ pc' = "leave"
    /\ UNCHANGED << start_vars, parsed, alarm_time, ctx, loop_vars,
                    is_on_charger, wheels, was_on_charger, time_waited,
                    spoken, count_vars >>

\* the with block of the alarm: say the time and wait for that to complete
SayText ==
    /\ pc = "say"
    /\ spoken' = ShortTimeString(current_time)
    /\ cmds' = Append(cmds, "say_text")
    /\ \E d \in 0..MaxBlock : wall' = wall + d
    /\ pc' = "leave"
    /\ UNCHANGED << start_vars, parsed, alarm_time, ctx, loop_vars,
                    is_on_charger, lift_height, head_angle, wheels,
                    was_on_charger, time_waited, count_vars >>

\* perform_operation_off_charger after its yield: the robot is backed onto
\* the charger if it was on it, and otherwise the with statement is over
LeaveOffCharger ==
    /\ pc = "leave"
    /\ IF BackupNeeded(was_on_charger)
       THEN pc' = "backup" /\ ctx' = ctx
       ELSE pc' = AfterBlock(ctx) /\ ctx' = "none"
    /\ was_on_charger' = was_on_charger
    /\ UNCHANGED << start_vars, parsed, alarm_time, wall, loop_vars,
                    is_on_charger, lift_height, head_angle, wheels,
                    time_waited, spoken, cmds, count_vars >>

\* backup_onto_charger, lines 229-230
BackupStart ==
    /\ pc = "backup"
    /\ cmds' = Append(cmds, "drive_wheels")
    /\ wheels' = "reverse"
    /\ time_waited' = 0
    /\ pc' = "poll"
    /\ UNCHANGED << start_vars, parsed, alarm_time, ctx, wall, loop_vars,
                    is_on_charger, lift_height, head_angle, was_on_charger,
                    spoken, count_vars >>

\* one test of the while condition of backup_onto_charger and, when it
\* holds, one pass of the body; the robot may reach the charger during
\* the sleep
BackupPoll ==
    /\ pc = "poll"
    /\ IF KeepWaiting(time_waited, is_on_charger)
       THEN /\ time_waited' = time_waited + SleepTenths
            /\ is_on_charger' \in BOOLEAN
            /\ pc' = "poll"
       ELSE /\ pc' = "stop"
            /\ UNCHANGED << time_waited, is_on_charger >>
    /\ UNCHANGED << start_vars, parsed, alarm_time, ctx, wall, loop_vars,
                    lift_height, head_angle, wheels, was_on_charger, spoken,
                    cmds, count_vars >>

\* robot.stop_all_motors(), and the return to the caller of the with
\* statement; the waiting has taken time_waited tenths of a second, and the
\* locals time_waited and was_on_charger end here
BackupStop ==
    /\ pc = "stop"
    /\ cmds' = Append(cmds, "stop_all_motors")
    /\ wheels' = "stopped"
    /\ \E d \in 0..1 : wall' = wall + (time_waited \div 10) + d
    /\ time_waited' = 0
    /\ was_on_charger' = FALSE
    /\ pc' = AfterBlock(ctx)
    /\ ctx' = "none"
    /\ UNCHANGED << start_vars, parsed, alarm_time, loop_vars, is_on_charger,
                    lift_height, head_angle, spoken, count_vars >>

\* the bookkeeping of a tick sampled on calendar day d that fires or not
CountTick(d, fires) ==
    /\ first_day' = IF first_day = -1 THEN d ELSE first_day
    /\ last_fire_day' = IF fires THEN d ELSE last_fire_day
    /\ day_fires' = IF first_day # -1 /\ d = sample_day
                    THEN day_fires + (IF fires THEN 1 ELSE 0)
                    ELSE (IF fires THEN 1 ELSE 0)
    /\ ended_day_fires' =
          IF first_day # -1 /\ d > sample_day
          THEN (IF sample_day > first_day THEN day_fires ELSE -1)
          ELSE ended_day_fires

\* one iteration of the while loop of alarm_clock, lines 281-308.  A tick
\* that fires goes on into the with statement; any other tick redraws the
\* face if needed and sleeps.
Tick ==
    /\ pc = "loop"
    /\ wall < stop_at
    /\ LET sampled == TimeOfDay(wall)
           fires == AlarmDue(alarm_time, was_before_alarm_time, sampled)
       IN  /\ current_time' = sampled
           /\ sample_day' = DayOf(wall)
           /\ do_alarm' = fires
           /\ was_before_alarm_time' =
                 NextWasBefore(alarm_time, was_before_alarm_time, sampled)
           /\ CountTick(DayOf(wall), fires)
           /\ IF fires
              THEN /\ pc' = "enter"
                   /\ ctx' = "alarm"
                   /\ cmds' = << >>
                   /\ UNCHANGED << wall, last_displayed_time, face >>
              ELSE IF NeedsRedraw(last_displayed_time, sampled)
              THEN \E lag \in 0..TickSeconds : \E total \in lag..TickSeconds :
                      /\ face' = MakeClockImage(sampled, TimeOfDay(wall + lag),
                                                show_analog)
                      /\ cmds' = <<"display_lcd_face_image">>
                      /\ last_displayed_time' = sampled
                      /\ wall' = wall + total
                      /\ UNCHANGED << pc, ctx >>
              ELSE \E total \in 0..TickSeconds :
                      /\ wall' = wall + total
                      /\ cmds' = << >>
                      /\ UNCHANGED << pc, ctx, last_displayed_time, face >>
    /\ UNCHANGED << start_vars, parsed, alarm_time, robot_vars >>

\* time.sleep(0.1) at the end of a tick that fired, line 308
Sleep ==
    /\ pc = "sleep"
    /\ \E total \in 0..TickSeconds : wall' = wall + total
    /\ pc' = "loop"
    /\ UNCHANGED << start_vars, parsed, alarm_time, ctx, loop_vars,
                    robot_vars, cmds, count_vars >>

\* the user's interrupt, caught in run(), lines 319-321.  The runs of the
\* model are interrupted between two ticks, once the wall clock has reached
\* stop_at; an interrupt in the middle of a robot action is not modelled.
Interrupt ==
    /\ pc = "loop"
    /\ wall >= stop_at
    /\ pc' = "exit_requested"
    /\ UNCHANGED << start_vars, parsed, alarm_time, ctx, wall, loop_vars,
                    robot_vars, cmds, count_vars >>

Next ==
    \/ ExtractArgs
    \/ GetInPosition
    \/ EnterOffCharger
    \/ MoveLiftAndHead
    \/ SayText
    \/ LeaveOffCharger
    \/ BackupStart
    \/ BackupPoll
    \/ BackupStop
    \/ Tick
    \/ Sleep
    \/ Interrupt

(***************************************************************************)
(* Inputs and initial states                                               *)
(***************************************************************************)
\* the command line a shell makes of the fields typed with the separators
\* seps (seps[i] stands between field i and field i + 1): a blank starts a
\* new argument, a colon stays inside the argument
RECURSIVE JoinArgs(_, _)
JoinArgs(fields, seps) ==
    IF Len(fields) = 0 THEN << >>
    ELSE IF Len(fields) = 1 THEN << fields[1] >>
    ELSE LET n == Len(fields)
             front == JoinArgs(SubSeq(fields, 1, n - 1), SubSeq(seps, 1, n - 2))
             k == Len(front)
         IN  IF seps[n - 1] = " " THEN Append(front, fields[n])
             ELSE [front EXCEPT ![k] = front[k] \o <<":">> \o fields[n]]

Separators == {" ", ":"}

\* every way of separating the fields fs
Typed(fs) ==
    {[fields |-> fs, seps |-> sp] :
        sp \in [1..(IF Len(fs) = 0 THEN 0 ELSE Len(fs) - 1) -> Separators]}

\* h:m:s as a second of day 0
HMS(h, m, s) == (3600 * h) + (60 * m) + s

\* how far above the largest maximum the numeric fields of the parser's
\* inputs go
OverRange == 2

\* how many seconds of wall-clock time a run of Spec covers
MaxSpan == 5

\* how many whole calendar days a run of SpecDay covers
DaysRun == 1

\* fields that are no int, or an int written in an unusual way, or negative
OddFields ==
    { << >>, <<"x">>, <<"7", "x">>, <<"-", "1">>, <<"-", "0">>, <<"+", "7">>,
      <<"0", "7">>, <<" ", "7">>, <<"1", "_", "0">>, <<"_", "1">>,
      <<"1", "0", "0">>, <<"-">> }

\* every field tried in full in one position
FullFields == {Str(n) : n \in 0..(MaxSeconds + OverRange)} \cup OddFields

\* the fields tried in the other positions
FewFields == {Str(0), Str(MaxHours), <<"x">>}

\* the field lists handed to the parser: none, one, two, three and four
\* fields, each position in turn running over FullFields, and every valid
\* hour with every valid minute, alone and with the seconds 0 and 59
ParseFieldLists ==
    {<< >>}
    \cup {<<a>> : a \in FullFields}
    \cup {<<a, b>> : a \in FullFields, b \in FewFields}
    \cup {<<a, b>> : a \in FewFields, b \in FullFields}
    \cup {<<a, b, c>> : a \in FullFields, b \in FewFields, c \in FewFields}
    \cup {<<a, b, c>> : a \in FewFields, b \in FullFields, c \in FewFields}
    \cup {<<a, b, c>> : a \in FewFields, b \in FewFields, c \in FullFields}
    \cup {<<a, b, c, d>> : a \in FewFields, b \in FewFields, c \in FewFields,
                           d \in FewFields}
    \cup {<<Str(h), Str(m)>> : h \in 0..MaxHours, m \in 0..MaxMinutes}
    \cup {<<Str(h), Str(m), Str(sec)>> :
             h \in 0..MaxHours, m \in 0..MaxMinutes, sec \in {0, MaxSeconds}}

ParseInputs == UNION {Typed(fs) : fs \in ParseFieldLists}

\* the command lines of the runs of the loop: no argument, a malformed
\* time, and alarms in the morning, just before and just after midnight
\* and at midnight
LoopInputs ==
    Typed(<< >>)
    \cup {[fields |-> <<Str(25), <<"0", "0">> >>, seps |-> <<" ">>],
          [fields |-> <<Str(7), Str(30)>>, seps |-> <<" ">>],
          [fields |-> <<Str(9), Str(15), Str(45)>>, seps |-> <<":", ":">>],
          [fields |-> <<Str(23), Str(59), Str(59)>>, seps |-> <<" ", ":">>],
          [fields |-> <<Str(0), Str(0), Str(1)>>, seps |-> <<" ", " ">>],
          [fields |-> <<Str(0), Str(0)>>, seps |-> <<":">>]}

\* the seconds of day 0 at which the runs of the loop start
StartTimes == {HMS(7, 29, 58), HMS(7, 30, 0), HMS(9, 15, 44), HMS(23, 59, 57)}

\* lift height and head angle of the robot when the program starts
StartPoses == {<<0, MaxHeadAngle>>, <<LiftLimit + 1, MaxHeadAngle>>,
               <<0, HeadLimit - 1>>}

\* alarms at midnight and in the last second of the day
DayInputs ==
    {[fields |-> <<Str(0), Str(0)>>, seps |-> <<":">>],
     [fields |-> <<Str(23), Str(59), Str(59)>>, seps |-> <<":", ":">>]}

\* the state of alarm_clock's locals and of the bookkeeping before the
\* first statement runs
InitLocals ==
    /\ argv = JoinArgs(given.fields, given.seps)
    /\ parsed = NotRun
    /\ alarm_time = None
    /\ pc = "args"
    /\ ctx = "none"
    /\ current_time = None
    /\ sample_day = 0
    /\ do_alarm = FALSE
    /\ was_before_alarm_time = InitialWasBefore
    /\ last_displayed_time = None
    /\ face = None
    /\ wheels = "stopped"
    /\ was_on_charger = FALSE
    /\ time_waited = 0
    /\ cmds = << >>
    /\ spoken = None
    /\ day_fires = 0
    /\ first_day = -1
    /\ last_fire_day = -1
    /\ ended_day_fires = -1

\* a run of the program over MaxSpan seconds
Init ==
    /\ given \in LoopInputs
    /\ wall \in StartTimes
    /\ stop_at = wall + MaxSpan
    /\ show_analog \in BOOLEAN
    /\ is_on_charger \in BOOLEAN
    /\ \E pose \in StartPoses : lift_height = pose[1] /\ head_angle = pose[2]
    /\ InitLocals

Spec == Init /\ [][Next]_vars

\* a run of the program from twenty seconds before midnight of day 0, so
\* that the first tick still falls on day 0, until DaysRun whole days have
\* gone by
InitDay ==
    /\ given \in DayInputs
    /\ wall = HMS(23, 59, 40)
    /\ stop_at = ((DaysRun + 1) * SecondsPerDay) + 1
    /\ show_analog = FALSE
    /\ is_on_charger = TRUE
    /\ lift_height = LiftLimit + 1
    /\ head_angle = MaxHeadAngle
    /\ InitLocals

SpecDay == InitDay /\ [][Next]_vars

\* the parser alone, on every input of ParseInputs
InitParse ==
    /\ given \in ParseInputs
    /\ wall = 0
    /\ stop_at = 0
    /\ show_analog = FALSE
    /\ is_on_charger = FALSE
    /\ lift_height = 0
    /\ head_angle = MaxHeadAngle
    /\ InitLocals

NextParse == ExtractArgs

SpecParse == InitParse /\ [][NextParse]_vars

\* a run with the alarm set for 07:30, started two seconds before it
InitMorning ==
    /\ given = [fields |-> <<Str(7), Str(30)>>, seps |-> <<" ">>]
    /\ wall = HMS(7, 29, 58)
    /\ stop_at = wall + MaxSpan
    /\ show_analog \in BOOLEAN
    /\ is_on_charger \in BOOLEAN
    /\ \E pose \in StartPoses : lift_height = pose[1] /\ head_angle = pose[2]
    /\ InitLocals

\* that run with its single thread never starved: whatever step is
\* enabled is eventually taken
FairSpec == InitMorning /\ [][Next]_vars /\ WF_vars(Next)

(***************************************************************************)
(* Properties                                                              *)
(***************************************************************************)
\* a step that is one tick of the loop
TickStep == pc = "loop" /\ pc' # "exit_requested"

\* images pushed to the LCD since the last tick began
Pushed == Count(cmds, "display_lcd_face_image")

\* the second at which a run of Spec started
StartWall == stop_at - MaxSpan

\* the perform_operation_off_charger block of the alarm ends with this step
AlarmBlockEnds == ctx = "alarm" /\ pc \in {"leave", "stop"} /\ pc' = "sleep"

\* the commands of an alarm block that ends with the robot backed up
BackedUpLog ==
    <<"drive_off_charger_contacts", "say_text", "drive_wheels",
      "stop_all_motors">>

\* the commands of an alarm block without a backup
StayedOffLog == <<"drive_off_charger_contacts", "say_text">>

\* C1: with an alarm time set, a tick fires exactly when the previous tick
\* sampled a time before the alarm time and this tick samples a time at or
\* after it; so the first tick never fires, two ticks in a row never both
\* fire, and a run started at or after the alarm time does not fire on the
\* day it started.
C1_FiresOnTheEdgeOnly ==
    /\ [][(TickStep /\ Truthy(alarm_time)) =>
             /\ do_alarm' = (/\ current_time # None
                             /\ TimeLess(current_time, alarm_time)
                             /\ ~TimeLess(current_time', alarm_time))
             /\ (current_time = None => ~do_alarm')
             /\ (do_alarm => ~do_alarm')]_vars
    /\ []((/\ Truthy(alarm_time)
           /\ current_time # None
           /\ ~TimeLess(TimeOfDay(StartWall), alarm_time)
           /\ sample_day = DayOf(StartWall))
          => last_fire_day = -1)

\* a tick has fired: it sampled the alarm time or later, the tick before
\* it having run
C1_Witness ==
    /\ do_alarm
    /\ pc = "enter"
    /\ ~TimeLess(current_time, alarm_time)
    /\ last_fire_day = sample_day

\* C2 as stated: once a tick has fired, no later tick fires, however long
\* the loop runs.
C2_NeverFiresAgain ==
    [][(TickStep /\ last_fire_day # -1) => ~do_alarm']_vars

\* C2 as amended: no two ticks of the same calendar day fire.
C2_FiresOncePerDayAtMost == day_fires <= 1

\* a tick later on the day of the firing that did not fire
C2_Witness ==
    /\ pc = "loop"
    /\ last_fire_day = sample_day
    /\ day_fires = 1
    /\ ~TimeLess(current_time, alarm_time)
    /\ cmds = <<"display_lcd_face_image">>

\* C3: on every calendar day the loop ticks through from its start to its
\* end, exactly one tick fires, whatever valid alarm time is set.
C3_FiresOnceEveryFullDay ==
    (Truthy(alarm_time) /\ ended_day_fires # -1) => ended_day_fires = 1

\* C4: in-range fields h, m and s written in decimal, with blanks or colons
\* between them in any mixture, parse to the time h:m:s, and h and m alone
\* parse to h:m:00.
C4_ParsesEveryWriting ==
    pc # "args" =>
        LET f == given.fields
        IN  Len(f) \in {2, 3} =>
              \A h \in 0..23 : f[1] = Str(h) =>
                \A m \in 0..59 : f[2] = Str(m) =>
                  IF Len(f) = 2
                  THEN parsed = [exc |-> "none",
                                 val |-> [hour |-> h, minute |-> m,
                                          second |-> 0]]
                  ELSE \A sec \in 0..59 : f[3] = Str(sec) =>
                         parsed = [exc |-> "none",
                                   val |-> [hour |-> h, minute |-> m,
                                            second |-> sec]]

\* "23 59:0" has been parsed to 23:59:00
C4_Witness ==
    /\ pc # "args"
    /\ given = [fields |-> <<Str(23), Str(59), Str(0)>>, seps |-> <<" ", ":">>]
    /\ argv = << <<"2", "3">>, <<"5", "9", ":", "0">> >>
    /\ parsed.val = [hour |-> 23, minute |-> 59, second |-> 0]

\* a field that is no int, or a negative int, or an int above max
BadField(f, max) ==
    \/ f \in {<< >>, <<"x">>, <<"7", "x">>, <<"_", "1">>, <<"-">>,
              <<"-", "1">>, <<"1", "0", "0">>}
    \/ PyInt(f).exc # "none"
    \/ PyInt(f).val < 0
    \/ PyInt(f).val > max

\* C5: when one of the first three fields is no int, negative or above its
\* maximum, or when there are fewer than two fields, the parser returns
\* None, and no exception ever leaves it.
C5_BadFieldsGiveNoAlarm ==
    pc # "args" =>
        LET f == given.fields
        IN  /\ parsed.exc = "none"
            /\ (\/ Len(f) < 2
                \/ BadField(f[1], 23)
                \/ BadField(f[2], 59)
                \/ (Len(f) >= 3 /\ BadField(f[3], 59)))
               => parsed.val = None

\* "0 23 60" has been parsed to None
C5_Witness ==
    /\ pc # "args"
    /\ given.fields = <<Str(0), Str(23), Str(60)>>
    /\ parsed = [exc |-> "none", val |-> None]

\* no argument, or the malformed "25 00"
NoAlarmTyped == given.fields \in {<< >>, <<Str(25), <<"0", "0">> >>}

\* C6: without an alarm time (no arguments, or malformed ones) the loop
\* runs and draws the face, no tick fires, and no tick drives the robot off
\* the charger, makes it speak or backs it up.
C6_NoAlarmNoAction ==
    (NoAlarmTyped /\ pc # "args") =>
        /\ alarm_time = None
        /\ pc # "crashed"
        /\ current_time # None =>
              /\ pc \in {"loop", "exit_requested"}
              /\ ~do_alarm
              /\ last_fire_day = -1
              /\ face # None
              /\ spoken = None
              /\ cmds \in {<< >>, <<"display_lcd_face_image">>}

\* the loop has ticked and drawn after "25 00" was typed
C6_Witness ==
    /\ given.fields = <<Str(25), <<"0", "0">> >>
    /\ alarm_time = None
    /\ pc = "loop"
    /\ current_time # None
    /\ cmds = << >>
    /\ face # None

\* C7 as stated: the alarm block drives off the charger, then speaks, and
\* then a robot that was on the charger is on it again when the block
\* ends, while one that was not is not driven backward.
C7_EndsBackOnCharger ==
    [][AlarmBlockEnds =>
          IF was_on_charger
          THEN cmds' = BackedUpLog /\ is_on_charger'
          ELSE cmds' = StayedOffLog]_vars

\* C7 as amended: the alarm block drives off the charger, then speaks, and
\* then a robot that was on the charger is driven backward until it is on
\* the charger or the wait has run out, and stopped, while one that was not
\* is not driven backward.
C7_BacksUpOrTimesOut ==
    [][AlarmBlockEnds =>
          IF was_on_charger
          THEN /\ cmds' = BackedUpLog
               /\ is_on_charger' \/ time_waited >= 30
          ELSE cmds' = StayedOffLog]_vars

\* an alarm block has ended with the robot back on the charger
C7_Witness ==
    /\ pc = "sleep"
    /\ do_alarm
    /\ cmds = BackedUpLog
    /\ is_on_charger
    /\ spoken = ShortTimeString(current_time)

\* C8: a tick that does not fire pushes one image exactly when nothing was
\* drawn before or the sampled second differs from the second last drawn,
\* and then last_displayed_time is the sampled time; a tick that fires
\* pushes nothing and leaves last_displayed_time alone.
C8_RedrawsOncePerSecond ==
    /\ [][TickStep =>
             IF do_alarm'
             THEN /\ Pushed' = 0
                  /\ last_displayed_time' = last_displayed_time
                  /\ face' = face
             ELSE /\ (Pushed' = 1) =
                        (\/ last_displayed_time = None
                         \/ current_time'.second # last_displayed_time.second)
                  /\ Pushed' \in {0, 1}
                  /\ Pushed' = 1 => last_displayed_time' = current_time'
                  /\ Pushed' = 0 => last_displayed_time' = last_displayed_time
                  /\ last_displayed_time'.second = current_time'.second]_vars
    /\ []((do_alarm /\ pc # "loop") => Pushed = 0)

\* a tick in the second already drawn has pushed nothing
C8_Witness ==
    /\ pc = "loop"
    /\ current_time # None
    /\ ~do_alarm
    /\ Pushed = 0
    /\ last_displayed_time = current_time

\* C9: the text on the image of a tick is the 12-hour formatting of the
\* time that tick sampled and passed to make_clock_image.
C9_TextIsTheSampledTime ==
    (pc = "loop" /\ Pushed = 1) => face.text = Strftime12(current_time)

\* C10: backup_onto_charger waits in steps of a tenth of a second, for 30
\* of them at most, leaves the wait only with the robot on the charger or
\* the 30 steps used up, then stops the motors as its one last command, and
\* always comes to that end.
C10_BackupEndsStopped ==
    /\ [](time_waited \in 0..30)
    /\ []((pc = "stop") =>
             /\ is_on_charger \/ time_waited = 30
             /\ wheels = "reverse"
             /\ cmds[Len(cmds)] = "drive_wheels")
    /\ [][(pc = "poll" /\ pc' = "poll") =>
             /\ ~is_on_charger
             /\ time_waited' = time_waited + 1
             /\ cmds' = cmds]_vars
    /\ [][(pc = "stop") =>
             /\ cmds' = Append(cmds, "stop_all_motors")
             /\ Count(cmds', "stop_all_motors") = 1
             /\ wheels' = "stopped"
             /\ pc' \in {"loop", "sleep"}]_vars
    /\ (pc = "backup") ~> (pc \in {"loop", "sleep"} /\ wheels = "stopped")

\* the wait has run out with the robot still off the charger, and the
\* motors are about to be stopped
C10_Witness ==
    /\ pc = "stop"
    /\ time_waited = 30
    /\ ~is_on_charger
    /\ wheels = "reverse"

=============================================================================
